---- MODULE Spec2Model ----
(***************************************************************************)
(* Model of ChangeTrackerImpl (packages/change-tracker/src/index.ts): a    *)
(* fingerprint-based change tracker that keeps a runtime Map of file       *)
(* states and a JSON history file of the last fingerprints.                *)
(*                                                                         *)
(* JavaScript values are modelled as strings, plain objects as records     *)
(* [kind, own] whose property reads go through the prototype chain.        *)
(***************************************************************************)
EXTENDS Integers, FiniteSets, Sequences, TLC

VARIABLES
    config,      \* this.config: [historyPath, enabled]
    fileStates,  \* this.fileStates: Map<string, FileChangeState>
    disk,        \* the history files, by path
    last,        \* the most recent call, its arguments and what it returned
    held,        \* the Map a caller kept from trackChanges: [ref, entries]
    calls,       \* the trackChanges calls awaiting the file system, by name
    other        \* a second tracker: [ref, config]

vars == <<config, fileStates, disk, last, held, calls, other>>

-----------------------------------------------------------------------------
(* Bounds and value domains *)

\* Largest number of files passed to one trackChanges call.
MaxFiles == 2

\* File paths: an ordinary name, and two names that Object.prototype defines.
Paths == {"a.txt", "constructor", "__proto__"}

\* Buffer contents of a file.
Contents == {"x", "y"}

\* The JavaScript value undefined.
Undefined == "<undefined>"

\* Values inherited by every plain object, number and so on.
ObjectFunction == "<function Object>"
ObjectPrototype == "<Object.prototype>"
NumberFunction == "<function Number>"
NumberPrototype == "<Number.prototype>"

\* History paths a configuration can name ("" is the unset path).
HistoryFiles == {"history.json"}
ConfigPaths == HistoryFiles \cup {""}

EmptyMap == [p \in {} |-> Undefined]

\* FileDataCollection<T>: Record<string, T> with T extends HasContents.  A
\* contents of undefined is what the type system forbids and a cast allows.
FileDataCollection ==
    UNION { [D -> [contents : Contents \cup {Undefined}]] :
            D \in { S \in SUBSET Paths : Cardinality(S) <= MaxFiles } }

-----------------------------------------------------------------------------
(* JavaScript objects *)

\* A JavaScript value that property reads are applied to.
JSValue(kind, own) == [kind |-> kind, own |-> own]

EmptyObject == JSValue("object", EmptyMap)

\* obj[key]: own property first, then the prototype chain.  Reading a
\* property of null throws (the caller tests kind = "null").
Get(obj, key) ==
    IF key \in DOMAIN obj.own THEN obj.own[key]
    ELSE IF key = "constructor"
         THEN (IF obj.kind = "number" THEN NumberFunction ELSE ObjectFunction)
    ELSE IF key = "__proto__"
         THEN (IF obj.kind = "number" THEN NumberPrototype ELSE ObjectPrototype)
    ELSE Undefined

\* obj[key] = value on a plain object, value a string: the __proto__ setter
\* of Object.prototype ignores a value that is neither an object nor null.
Put(obj, key, value) ==
    IF key = "__proto__" THEN obj
    ELSE JSValue(obj.kind,
                 [k \in DOMAIN obj.own \cup {key} |->
                     IF k = key THEN value ELSE obj.own[k]])

\* !value
Falsy(value) == value \in {Undefined, ""}

\* Object.keys(obj) / the keys of Object.entries(obj)
Keys(obj) == DOMAIN obj

-----------------------------------------------------------------------------
(* The history file *)

Absent == [kind |-> "absent", own |-> EmptyMap]

\* JSON.stringify(fingerprints, null, 2): the own enumerable properties.
JSONstringify(obj) == [kind |-> "object", own |-> obj.own]

\* Does JSON.parse(content) throw?
ParseThrows(content) == content.kind = "invalid"

\* JSON.parse(content), for a content it accepts: null, a number or an object
\* whose members become own properties.
JSONparse(content) == JSValue(content.kind, content.own)

\* Contents an external editor can leave in a history file.
ManualContents ==
    { Absent,
      [kind |-> "invalid", own |-> EmptyMap],
      [kind |-> "null", own |-> EmptyMap],
      [kind |-> "number", own |-> EmptyMap],
      [kind |-> "object", own |-> [p \in {"a.txt"} |-> ""]],
      [kind |-> "object", own |-> [p \in {"a.txt"} |-> "manual"]] }

-----------------------------------------------------------------------------
(* ChangeTrackerImpl *)

\* createHash("md5").update(file.contents).digest("hex")
createFingerprint(file) ==
    CASE file.contents = "x" -> "9dd4e461268c8034f5c8564e155c67a6"
      [] file.contents = "y" -> "415290769594460e2e485922904f345d"

\* update(undefined) throws a TypeError
FingerprintThrows(file) == file.contents = Undefined

\* loadHistory(), the history path being set: readFile or JSON.parse throwing
\* gives {}.
loadHistory ==
    LET content == disk[config.historyPath] IN
    IF content.kind = "absent" \/ ParseThrows(content) THEN EmptyObject
    ELSE JSONparse(content)

\* Object.entries(files).reduce((acc, [filepath, file]) => ..., {})
RECURSIVE ReduceFingerprints(_, _, _)
ReduceFingerprints(files, todo, acc) ==
    IF todo = {} THEN acc
    ELSE LET filepath == CHOOSE p \in todo : TRUE IN
         ReduceFingerprints(files, todo \ {filepath},
                            Put(acc, filepath, createFingerprint(files[filepath])))

NewFingerprints(files) == ReduceFingerprints(files, Keys(files), EmptyObject)

\* FileState without "isNew ? undefined : previousFingerprint"
FileStateKeepsPrevious(previousFingerprint, currentFingerprint) ==
    [status |-> IF Falsy(previousFingerprint) THEN "new"
                ELSE IF previousFingerprint # currentFingerprint THEN "modified"
                ELSE "unchanged",
     previousFingerprint |-> previousFingerprint]

\* The FileChangeState of one file
FileState(previousFingerprint, currentFingerprint) ==
    LET isNew == Falsy(previousFingerprint) IN
    [status |-> IF isNew THEN "new"
                ELSE IF previousFingerprint # currentFingerprint THEN "modified"
                ELSE "unchanged",
     previousFingerprint |-> IF isNew THEN Undefined ELSE previousFingerprint]

\* UntrackedState as the comment on ChangeTrackerConfig.enabled has it
UnchangedWhenDisabled == [status |-> "unchanged", previousFingerprint |-> Undefined]

\* The state of a file when tracking is disabled
UntrackedState == [status |-> "untracked", previousFingerprint |-> Undefined]

\* Pruned without the removal of the deleted files
PrunedNothing(states, files) == states

\* "Clear states for deleted files"
Pruned(states, files) == [p \in DOMAIN states \cap Keys(files) |-> states[p]]

\* Updated with a state set only for a file that has no state yet
UpdatedOnlyUntracked(states, files, loadedHistory, newFingerprints) ==
    [p \in DOMAIN states \cup Keys(files) |->
        IF p \in DOMAIN states
        THEN states[p]
        ELSE FileState(Get(loadedHistory, p), Get(newFingerprints, p))]

\* "Update file states": fileStates.set(filepath, state) for every file
Updated(states, files, loadedHistory, newFingerprints) ==
    [p \in DOMAIN states \cup Keys(files) |->
        IF p \in Keys(files)
        THEN FileState(Get(loadedHistory, p), Get(newFingerprints, p))
        ELSE states[p]]

\* What Map.get returns for a missing key: undefined, in the shape of a state.
UndefinedState == [status |-> Undefined, previousFingerprint |-> Undefined]

\* getFileState(filepath): this.fileStates.get(filepath)
getFileState(filepath) ==
    IF filepath \in DOMAIN fileStates THEN fileStates[filepath] ELSE UndefinedState

\* The record of a call: the operation, the files it was given (of a call
\* that returned or that failed on its input), the configuration it ran under, "ok" or the error it
\* threw, the value it returned (of a trackChanges whose save failed, the
\* states it had computed), the paths whose state it removed ("Removing
\* state for deleted file") and the filesystem primitives it invoked.
Call(op, files, outcome, value, removed, fsCalls) ==
    [op |-> op, files |-> files, enabled |-> config.enabled,
     historyPath |-> config.historyPath, outcome |-> outcome, value |-> value,
     removed |-> removed, fsCalls |-> fsCalls]

\* The record of a call that returned `value`
Returned(op, files, value, removed, fsCalls) ==
    Call(op, files, "ok", value, removed, fsCalls)

\* ChangeTrackerErrorType.HISTORY_PATH_NOT_SET reported as HISTORY_READ_ERROR
PathNotSetAsReadError == "HISTORY_READ_ERROR"

\* ChangeTrackerErrorType
HISTORY_PATH_NOT_SET == "HISTORY_PATH_NOT_SET"
HISTORY_WRITE_ERROR == "HISTORY_WRITE_ERROR"

\* The record of a call that threw `error`
Thrown(op, error, fsCalls) == Call(op, EmptyMap, error, EmptyMap, {}, fsCalls)

\* What mkdir and writeFile can do: succeed, or fail at mkdir, or at writeFile
\* before anything is written, or at writeFile after the file was truncated.
SaveOutcomes == {"saved", "mkdirFails", "writeRefused", "writeTruncated"}

\* The history file after saveHistory(fingerprints)
Saved(content, fingerprints, io) ==
    CASE io = "saved" -> JSONstringify(fingerprints)
      [] io \in {"mkdirFails", "writeRefused"} -> content
      [] io = "writeTruncated" -> [kind |-> "invalid", own |-> EmptyMap]

\* saveHistory with a catch block that logs and does not throw
SaveNeverThrows(io) == FALSE

\* Does saveHistory(fingerprints) throw?  Its catch block rethrows whatever
\* mkdir, JSON.stringify or writeFile threw.
SaveThrows(io) == io # "saved"

\* The filesystem primitives of loadHistory and saveHistory
SaveCalls(io) ==
    IF io = "mkdirFails" THEN <<"readFile", "mkdir">>
    ELSE <<"readFile", "mkdir", "writeFile">>

\* TrackingDisabled with the test of config.enabled left out
TrackingNeverDisabled == FALSE

\* if (!this.config.enabled)
TrackingDisabled == ~config.enabled

\* The states returned when tracking is disabled
UntrackedStates(files) == [p \in Keys(files) |-> UntrackedState]

\* trackChanges with the states pruned before the fingerprints are calculated
PrunedWhenFingerprintThrows(states, files) == Pruned(states, files)

\* Runtime state when createFingerprint throws: the fingerprints are
\* calculated before the states of deleted files are cleared.
StatesWhenFingerprintThrows(states, files) == states

\* trackChanges with the runtime state set only after saveHistory returned
StatesKeptWhenSaveThrows(before, states) == before

\* Runtime state when saveHistory throws: the states of deleted files are
\* cleared and the states of the input are set before saveHistory is called.
StatesWhenSaveThrows(before, states) == states

\* trackChanges(files)
trackChanges(files, io) ==
    IF TrackingDisabled
    THEN /\ io = "saved"
         /\ last' = Returned("trackChanges", files, UntrackedStates(files), {}, <<>>)
         /\ UNCHANGED <<config, fileStates, disk>>
    ELSE IF config.historyPath = ""
    THEN /\ io = "saved"
         /\ last' = Thrown("trackChanges", HISTORY_PATH_NOT_SET, <<>>)
         /\ UNCHANGED <<config, fileStates, disk>>
    ELSE IF \E p \in Keys(files) : FingerprintThrows(files[p])
    THEN /\ io = "saved"
         /\ fileStates' = StatesWhenFingerprintThrows(fileStates, files)
         /\ last' = Call("trackChanges", files, "TypeError", EmptyMap, {},
                         <<"readFile">>)
         /\ UNCHANGED <<config, disk>>
    ELSE IF loadHistory.kind = "null" /\ Keys(files) # {}
    THEN /\ io = "saved"
         /\ fileStates' = Pruned(fileStates, files)
         /\ last' = Thrown("trackChanges", "TypeError", <<"readFile">>)
         /\ UNCHANGED <<config, disk>>
    ELSE LET newFingerprints == NewFingerprints(files)
             states == Updated(Pruned(fileStates, files), files,
                               loadHistory, newFingerprints)
         IN  /\ fileStates' = IF SaveThrows(io)
                              THEN StatesWhenSaveThrows(fileStates, states)
                              ELSE states
             /\ disk' = [disk EXCEPT ![config.historyPath] =
                            Saved(@, newFingerprints, io)]
             /\ last' = IF SaveThrows(io)
                        THEN Call("trackChanges", EmptyMap, HISTORY_WRITE_ERROR,
                                  states, {}, SaveCalls(io))
                        ELSE Returned("trackChanges", files, states,
                                      DOMAIN fileStates \ DOMAIN states,
                                      SaveCalls(io))
             /\ UNCHANGED config

\* getFileState as a get-or-create lookup that sets a state for a path
\* that has none
GetFileStateInserts(filepath) ==
    /\ last' = Returned("getFileState", EmptyMap,
                        [p \in {filepath} |-> getFileState(filepath)], {}, <<>>)
    /\ fileStates' = [q \in DOMAIN fileStates \cup {filepath} |->
                         IF q \in DOMAIN fileStates THEN fileStates[q]
                         ELSE UntrackedState]
    /\ UNCHANGED <<config, disk>>

\* getFileState(filepath), called by the user of the tracker
GetFileState(filepath) ==
    /\ last' = Returned("getFileState", EmptyMap,
                        [p \in {filepath} |-> getFileState(filepath)], {}, <<>>)
    /\ UNCHANGED <<config, fileStates, disk>>

\* rm(path) without { force: true }: a missing file is an error
RmWithoutForceThrows(content, rmOk) == ~rmOk \/ content.kind = "absent"

\* Does rm(this.config.historyPath, { force: true }) throw?  Only when the
\* file system refuses (rmOk is false); a missing file is not an error.
RmThrows(content, rmOk) == ~rmOk

\* clearHistory with the runtime state cleared before the file is removed
clearHistoryClearsFirst(rmOk) ==
    IF config.historyPath = ""
    THEN /\ rmOk
         /\ last' = Thrown("clearHistory", HISTORY_PATH_NOT_SET, <<>>)
         /\ UNCHANGED <<config, fileStates, disk>>
    ELSE /\ fileStates' = EmptyMap
         /\ disk' = [disk EXCEPT ![config.historyPath] =
                        IF RmThrows(@, rmOk) THEN @ ELSE Absent]
         /\ last' = IF RmThrows(disk[config.historyPath], rmOk)
                    THEN Thrown("clearHistory", HISTORY_WRITE_ERROR, <<"rm">>)
                    ELSE Returned("clearHistory", EmptyMap, EmptyMap,
                                  DOMAIN fileStates, <<"rm">>)
         /\ UNCHANGED config

\* clearHistory()
clearHistory(rmOk) ==
    IF config.historyPath = ""
    THEN /\ rmOk
         /\ last' = Thrown("clearHistory", HISTORY_PATH_NOT_SET, <<>>)
         /\ UNCHANGED <<config, fileStates, disk>>
    ELSE IF ~RmThrows(disk[config.historyPath], rmOk)
    THEN /\ disk' = [disk EXCEPT ![config.historyPath] = Absent]
         /\ fileStates' = EmptyMap
         /\ last' = Returned("clearHistory", EmptyMap, EmptyMap,
                             DOMAIN fileStates, <<"rm">>)
         /\ UNCHANGED config
    ELSE /\ last' = Thrown("clearHistory", HISTORY_WRITE_ERROR, <<"rm">>)
         /\ UNCHANGED <<config, fileStates, disk>>

\* The arguments of enable: a boolean, or a configuration object, which at
\* run time has any subset of the fields.
ConfigObjects ==
    UNION { [historyPath : ConfigPaths, enabled : BOOLEAN],
            [historyPath : ConfigPaths],
            [enabled : BOOLEAN] }

\* { ...this.config, enabled: true, ...options }: the default of the
\* constructor applied again
MergeResetsEnabled(current, options) ==
    [k \in DOMAIN current \cup DOMAIN options |->
        IF k \in DOMAIN options THEN options[k]
        ELSE IF k = "enabled" THEN TRUE ELSE current[k]]

\* { ...this.config, ...options }
Merge(current, options) ==
    [k \in DOMAIN current \cup DOMAIN options |->
        IF k \in DOMAIN options THEN options[k] ELSE current[k]]

\* enable(options), options a boolean
enableBoolean(options) ==
    /\ config' = [config EXCEPT !.enabled = options]
    /\ last' = Returned("enable", EmptyMap, EmptyMap, {}, <<>>)
    /\ UNCHANGED <<fileStates, disk>>

\* enable(options), options a configuration object
enableConfig(options) ==
    /\ config' = Merge(config, options)
    /\ last' = Returned("enable", EmptyMap, EmptyMap, {}, <<>>)
    /\ UNCHANGED <<fileStates, disk>>

\* The history file is edited or removed from outside the tracker.
ExternalEdit(path, content) ==
    /\ disk[path] # content
    /\ disk' = [disk EXCEPT ![path] = content]
    /\ last' = Returned("external", EmptyMap, EmptyMap, {}, <<>>)
    /\ UNCHANGED <<config, fileStates>>

\* No Map is held by a caller
NoMap == [ref |-> "none", entries |-> EmptyMap]

\* The Map trackChanges returns: `new Map(...)` of untracked states when
\* tracking is disabled, otherwise `this.fileStates`, the object itself (no
\* entries are copied; they are read through the reference).
ReturnedMap(files) ==
    IF TrackingDisabled
    THEN [ref |-> "copy", entries |-> UntrackedStates(files)]
    ELSE [ref |-> "fileStates", entries |-> EmptyMap]

\* The entries of the Map the caller holds, now
HeldEntries == IF held.ref = "fileStates" THEN fileStates ELSE held.entries

\* trackChanges(files), the caller keeping the Map it returns
trackChangesAndHold(files, io) ==
    /\ trackChanges(files, io)
    /\ held' = IF last'.outcome = "ok" THEN ReturnedMap(files) ELSE held

\* A Map without the entry of `filepath`
MapDelete(map, filepath) == [q \in DOMAIN map \ {filepath} |-> map[q]]

\* A Map with `state` set for `filepath`
MapSet(map, filepath, state) ==
    [q \in DOMAIN map \cup {filepath} |-> IF q = filepath THEN state ELSE map[q]]

\* States a caller may put into a Map
CallerStates == {[status |-> "unchanged", previousFingerprint |-> Undefined]}

\* A set or a delete on the Map the caller holds: on this.fileStates itself
\* when that is the Map trackChanges returned.
CallerWrites(op, entries) ==
    /\ held.ref # "none"
    /\ entries # HeldEntries
    /\ IF held.ref = "fileStates"
       THEN fileStates' = entries /\ UNCHANGED <<held, calls, other>>
       ELSE held' = [held EXCEPT !.entries = entries] /\ UNCHANGED fileStates
    /\ last' = Returned(op, EmptyMap, EmptyMap, {}, <<>>)
    /\ UNCHANGED <<config, disk>>

\* states.delete(filepath) by the caller
CallerDeletes(filepath) ==
    CallerWrites("Map.delete", MapDelete(HeldEntries, filepath))

\* states.set(filepath, state) by the caller
CallerSets(filepath, state) ==
    CallerWrites("Map.set", MapSet(HeldEntries, filepath, state))

\* The trackChanges calls that may overlap on one tracker
CallNames == {"first", "second"}

\* Inputs of the overlapping calls
OverlappingFiles ==
    { files \in FileDataCollection :
        /\ Keys(files) \subseteq {"a.txt"}
        /\ \A p \in Keys(files) : ~FingerprintThrows(files[p]) }

\* A trackChanges call: where it is (not called, awaiting readFile, mkdir or
\* writeFile, or settled), its files, the path it passed to readFile and the
\* path it passed to writeFile, whether it started while another call was
\* awaiting, how it settled, and whether clearHistory has returned before it
\* started ("before"), while it awaited readFile ("loading") or after that
\* while it awaited mkdir or writeFile ("saving").
AsyncCall(pc, files, loadPath, savePath, overlaps, outcome) ==
    [pc |-> pc, files |-> files, loadPath |-> loadPath, savePath |-> savePath,
     overlaps |-> overlaps, outcome |-> outcome, cleared |-> "no"]

\* A call that was not made yet
NotCalled == AsyncCall("idle", EmptyMap, "", "", FALSE, Undefined)

\* The call `c` as it starts: what is known of the calls before it is kept
Started(c, call) == [call EXCEPT !.cleared = calls[c].cleared]

\* Is a call awaiting the file system?
Awaiting(c) == calls[c].pc \in {"readFile", "mkdir", "writeFile"}

\* trackChanges(files) up to its first await: the test of config.enabled,
\* and in loadHistory the test of config.historyPath and the readFile call.
trackChangesStart(c, files) ==
    /\ calls[c].pc = "idle"
    /\ IF TrackingDisabled
       THEN /\ calls' = [calls EXCEPT ![c] =
                           Started(c, AsyncCall("settled", files, "", "",
                                                FALSE, "ok"))]
            /\ last' = Returned("trackChanges", files, UntrackedStates(files),
                                {}, <<>>)
       ELSE IF config.historyPath = ""
       THEN /\ calls' = [calls EXCEPT ![c] =
                           Started(c, AsyncCall("settled", files, "", "", FALSE,
                                                HISTORY_PATH_NOT_SET))]
            /\ last' = Thrown("trackChanges", HISTORY_PATH_NOT_SET, <<>>)
       ELSE /\ calls' = [calls EXCEPT ![c] =
                           Started(c, AsyncCall("readFile", files,
                                                config.historyPath, "",
                                                \E d \in CallNames : Awaiting(d),
                                                Undefined))]
            /\ UNCHANGED last
    /\ UNCHANGED <<config, fileStates, disk, held, other>>

\* The history object a call gets from the file it asked readFile for
Loaded(c) ==
    IF disk[calls[c].loadPath].kind = "absent" \/ ParseThrows(disk[calls[c].loadPath])
    THEN EmptyObject
    ELSE JSONparse(disk[calls[c].loadPath])

\* trackChanges from the end of readFile to the next await: the history is
\* parsed, the fingerprints calculated, the runtime state pruned and updated,
\* and saveHistory tests config.historyPath, as it is now, and calls mkdir.
trackChangesAfterLoad(c) ==
    /\ calls[c].pc = "readFile"
    /\ Loaded(c).kind # "null"
    /\ fileStates' = Updated(Pruned(fileStates, calls[c].files), calls[c].files,
                             Loaded(c), NewFingerprints(calls[c].files))
    /\ IF config.historyPath = ""
       THEN /\ calls' = [calls EXCEPT ![c].pc = "settled",
                                      ![c].outcome = HISTORY_PATH_NOT_SET]
            /\ last' = Thrown("trackChanges", HISTORY_PATH_NOT_SET, <<"readFile">>)
       ELSE /\ calls' = [calls EXCEPT ![c].pc = "mkdir"]
            /\ UNCHANGED last
    /\ UNCHANGED <<config, disk, held, other>>

\* saveHistory from the end of mkdir: writeFile is called with
\* config.historyPath as it is now.
saveHistoryAfterMkdir(c) ==
    /\ calls[c].pc = "mkdir"
    /\ calls' = [calls EXCEPT ![c].pc = "writeFile",
                              ![c].savePath = config.historyPath]
    /\ UNCHANGED <<config, fileStates, disk, last, held, other>>

\* The end of writeFile: the file holds the fingerprints of the call, and
\* trackChanges returns this.fileStates; writeFile with an empty path fails
\* and saveHistory throws HISTORY_WRITE_ERROR.
saveHistoryAfterWrite(c) ==
    /\ calls[c].pc = "writeFile"
    /\ IF calls[c].savePath = ""
       THEN /\ calls' = [calls EXCEPT ![c].pc = "settled",
                                      ![c].outcome = HISTORY_WRITE_ERROR]
            /\ last' = Thrown("trackChanges", HISTORY_WRITE_ERROR,
                              <<"readFile", "mkdir", "writeFile">>)
            /\ UNCHANGED disk
       ELSE /\ calls' = [calls EXCEPT ![c].pc = "settled", ![c].outcome = "ok"]
            /\ disk' = [disk EXCEPT ![calls[c].savePath] =
                           JSONstringify(NewFingerprints(calls[c].files))]
            /\ last' = Returned("trackChanges", calls[c].files, fileStates, {},
                                <<"readFile", "mkdir", "writeFile">>)
    /\ UNCHANGED <<config, fileStates, held, other>>

\* clearHistory() between the steps of the trackChanges calls: rm and
\* this.fileStates.clear() while the calls keep awaiting
clearHistoryBetween ==
    /\ clearHistory(TRUE)
    /\ calls' = IF last'.outcome = "ok"
                THEN [c \in CallNames |->
                        [calls[c] EXCEPT !.cleared =
                            CASE calls[c].pc = "idle" -> "before"
                              [] calls[c].pc = "readFile" -> "loading"
                              [] calls[c].pc \in {"mkdir", "writeFile"} -> "saving"
                              [] OTHER -> @]]
                ELSE calls
    /\ UNCHANGED <<held, other>>

\* A second tracker.  `private config` of the constructor keeps the object it
\* is given, so a tracker constructed from the object the first one was
\* constructed from has that object as its this.config (ref "config": its
\* fields are read through the reference) until an enable(object) gives it an
\* object of its own (ref "own").
NoConfig == [historyPath |-> "", enabled |-> TRUE]
NoInstance == [ref |-> "none", config |-> NoConfig]

\* this.config of the second tracker, now
OtherConfig == IF other.ref = "config" THEN config ELSE other.config

\* new ChangeTrackerImpl(config), with the object the first tracker was
\* constructed from and still has; `enabled ?? true` keeps the value the
\* first constructor set.
newFromSameConfig ==
    /\ other.ref = "none"
    /\ last.op = "new"
    /\ other' = [ref |-> "config", config |-> NoConfig]
    /\ UNCHANGED <<config, fileStates, disk, last>>

\* enable(options) on the first tracker, options a boolean: the assignment
\* is to a field of the object, whoever else has it
enableBooleanShared(options) ==
    /\ enableBoolean(options)
    /\ UNCHANGED other

\* enable(options) on the first tracker, options a configuration object:
\* this.config becomes a new object, the second tracker keeps the old one
enableConfigShared(options) ==
    /\ enableConfig(options)
    /\ other' = IF other.ref = "config"
                THEN [ref |-> "own", config |-> config]
                ELSE other

\* enable(options) on the second tracker, options a boolean
otherEnableBoolean(options) ==
    /\ other.ref # "none"
    /\ IF other.ref = "config"
       THEN config' = [config EXCEPT !.enabled = options] /\ UNCHANGED other
       ELSE other' = [other EXCEPT !.config.enabled = options] /\ UNCHANGED config
    /\ last' = Returned("other.enable", EmptyMap, EmptyMap, {}, <<>>)
    /\ UNCHANGED <<fileStates, disk>>

\* enable(options) on the second tracker, options a configuration object
otherEnableConfig(options) ==
    /\ other.ref # "none"
    /\ other' = [ref |-> "own", config |-> Merge(OtherConfig, options)]
    /\ last' = Returned("other.enable", EmptyMap, EmptyMap, {}, <<>>)
    /\ UNCHANGED <<config, fileStates, disk>>

\* new ChangeTrackerImpl(config): enabled defaults to true
Init ==
    /\ config \in [historyPath : ConfigPaths, enabled : BOOLEAN]
    /\ fileStates = EmptyMap
    /\ disk = [h \in HistoryFiles |-> Absent]
    /\ last = Returned("new", EmptyMap, EmptyMap, {}, <<>>)
    /\ held = NoMap
    /\ calls = [c \in CallNames |-> NotCalled]
    /\ other = NoInstance

\* The calls on one tracker, the returned Maps not kept
Next ==
    \/ \E files \in FileDataCollection, io \in SaveOutcomes :
          trackChanges(files, io) /\ UNCHANGED <<held, calls, other>>
    \/ \E filepath \in Paths : GetFileState(filepath) /\ UNCHANGED <<held, calls, other>>
    \/ \E rmOk \in BOOLEAN : clearHistory(rmOk) /\ UNCHANGED <<held, calls, other>>
    \/ \E options \in BOOLEAN : enableBoolean(options) /\ UNCHANGED <<held, calls, other>>
    \/ \E options \in ConfigObjects : enableConfig(options) /\ UNCHANGED <<held, calls, other>>
    \/ \E path \in HistoryFiles, content \in ManualContents :
          ExternalEdit(path, content) /\ UNCHANGED <<held, calls, other>>

Spec == Init /\ [][Next]_vars

\* The calls on one tracker whose caller keeps the Map of the latest
\* trackChanges that returned, and writes to it.
NextHeld ==
    \/ \E files \in FileDataCollection, io \in SaveOutcomes :
          trackChangesAndHold(files, io) /\ UNCHANGED <<calls, other>>
    \/ \E filepath \in Paths : GetFileState(filepath) /\ UNCHANGED <<held, calls, other>>
    \/ \E rmOk \in BOOLEAN : clearHistory(rmOk) /\ UNCHANGED <<held, calls, other>>
    \/ \E filepath \in Paths : CallerDeletes(filepath) /\ UNCHANGED <<calls, other>>
    \/ \E filepath \in Paths, state \in CallerStates : CallerSets(filepath, state) /\ UNCHANGED <<calls, other>>

SpecHeld == Init /\ [][NextHeld]_vars

\* trackChanges calls on one tracker that are not awaited one by one: each
\* runs from one await to the next; clearHistory and enable run between.
NextAsync ==
    \/ \E c \in CallNames, files \in OverlappingFiles : trackChangesStart(c, files)
    \/ \E c \in CallNames : trackChangesAfterLoad(c)
    \/ \E c \in CallNames : saveHistoryAfterMkdir(c)
    \/ \E c \in CallNames : saveHistoryAfterWrite(c)
    \/ clearHistoryBetween
    \/ \E options \in BOOLEAN : enableBoolean(options) /\ UNCHANGED <<held, calls, other>>
    \/ \E options \in ConfigObjects : enableConfig(options) /\ UNCHANGED <<held, calls, other>>

SpecAsync == Init /\ [][NextAsync]_vars

\* The calls on two trackers constructed from one configuration object
NextShared ==
    \/ newFromSameConfig /\ UNCHANGED <<held, calls>>
    \/ \E files \in FileDataCollection, io \in SaveOutcomes :
          trackChanges(files, io) /\ UNCHANGED <<held, calls, other>>
    \/ \E rmOk \in BOOLEAN : clearHistory(rmOk) /\ UNCHANGED <<held, calls, other>>
    \/ \E options \in BOOLEAN : enableBooleanShared(options) /\ UNCHANGED <<held, calls>>
    \/ \E options \in ConfigObjects : enableConfigShared(options) /\ UNCHANGED <<held, calls>>
    \/ \E options \in BOOLEAN : otherEnableBoolean(options) /\ UNCHANGED <<held, calls>>
    \/ \E options \in ConfigObjects : otherEnableConfig(options) /\ UNCHANGED <<held, calls>>

SpecShared == Init /\ [][NextShared]_vars

-----------------------------------------------------------------------------
(* Vocabulary of the properties *)

\* A step that is a trackChanges(files) call
TrackStep(files) == \E io \in SaveOutcomes : trackChanges(files, io)

\* The most recent call is a trackChanges call that returned, made with
\* tracking enabled / disabled
EnabledRun == last.op = "trackChanges" /\ last.outcome = "ok" /\ last.enabled
DisabledRun == last.op = "trackChanges" /\ last.outcome = "ok" /\ ~last.enabled

\* The keys of the persisted history: the members of the JSON object in the
\* history file, none when there is no file or no JSON object in it.
HistoryKeys(content) == IF content.kind = "object" THEN DOMAIN content.own ELSE {}

\* A state has a previousFingerprint
HasPrevious(state) == state.previousFingerprint # Undefined

-----------------------------------------------------------------------------
(* Properties *)

\* C1: an enabled trackChanges call that returns reports status "new" with
\* no previousFingerprint for every input path that is not a key of the
\* persisted history at the time of the call, whatever the path string.
C1_NeverSeenIsNew ==
    [][\A files \in FileDataCollection :
          (TrackStep(files) /\ config.enabled /\ last'.outcome = "ok")
          => \A p \in Keys(files) \ HistoryKeys(disk[config.historyPath]) :
                last'.value[p] = [status |-> "new", previousFingerprint |-> Undefined]
      ]_vars

\* C2: a path given to two consecutive enabled runs that return, with the
\* same content, is "unchanged" in the second run, with the fingerprint of
\* the first run as previousFingerprint.
C2_SameContentUnchanged ==
    [][\A files \in FileDataCollection :
          (EnabledRun /\ TrackStep(files) /\ config.enabled /\ last'.outcome = "ok")
          => \A p \in Keys(files) \cap Keys(last.files) :
                files[p].contents = last.files[p].contents
                => last'.value[p] =
                      [status |-> "unchanged",
                       previousFingerprint |-> createFingerprint(last.files[p])]
      ]_vars

\* C3: a path given to two consecutive enabled runs that return, with
\* different content, is "modified" in the second run, with the fingerprint
\* of the first run as previousFingerprint, and the history then holds
\* another fingerprint for it.
C3_OtherContentModified ==
    [][\A files \in FileDataCollection :
          (EnabledRun /\ TrackStep(files) /\ config.enabled /\ last'.outcome = "ok")
          => \A p \in Keys(files) \cap Keys(last.files) :
                files[p].contents # last.files[p].contents
                => /\ last'.value[p] =
                         [status |-> "modified",
                          previousFingerprint |-> createFingerprint(last.files[p])]
                   /\ p \in HistoryKeys(disk'[config.historyPath])
                   /\ disk'[config.historyPath].own[p]
                         # last'.value[p].previousFingerprint
      ]_vars

\* C4: after an enabled run that returned, the persisted history is exactly
\* the map from the paths of the input to the fingerprints of their contents.
C4_HistoryIsInputFingerprints ==
    EnabledRun =>
        disk[last.historyPath] =
            [kind |-> "object",
             own |-> [p \in Keys(last.files) |-> createFingerprint(last.files[p])]]

\* C5: after an enabled run that returned, a path absent from its input (one
\* given to the run before it, in particular) is absent from the returned map
\* and getFileState returns undefined for it.
C5_DeletedPathsDisappear ==
    EnabledRun =>
        \A p \in Paths \ Keys(last.files) :
            /\ p \notin DOMAIN last.value
            /\ getFileState(p) = UndefinedState

\* C5 witness: an enabled run returned after removing the state of a path
\* that an earlier run had tracked.
C5_Witness == EnabledRun /\ last.removed # {} /\ last.files # EmptyMap

\* C6: every state held in runtime state or returned by trackChanges has a
\* previousFingerprint exactly when its status is "modified" or "unchanged".
C6_PreviousIffModifiedOrUnchanged ==
    /\ \A p \in DOMAIN fileStates :
          HasPrevious(fileStates[p]) <=>
              fileStates[p].status \in {"modified", "unchanged"}
    /\ last.op = "trackChanges" =>
          \A p \in DOMAIN last.value :
              HasPrevious(last.value[p]) <=>
                  last.value[p].status \in {"modified", "unchanged"}

\* C6 witness: an enabled run returned a new state for one path and a
\* modified or unchanged state for another.
C6_Witness ==
    /\ EnabledRun
    /\ \E p, q \in DOMAIN fileStates :
          /\ fileStates[p].status = "new"
          /\ fileStates[q].status \in {"modified", "unchanged"}

C8_DisabledLeavesHistory ==
    [][(last'.op = "trackChanges" /\ ~config.enabled)
          => /\ disk' = disk
             /\ last'.fsCalls = <<>>
      ]_vars

\* C8 witness: a disabled run returned for some files while there is a
\* history file with entries.
C8_Witness ==
    /\ DisabledRun
    /\ last.historyPath \in HistoryFiles
    /\ last.files # EmptyMap
    /\ HistoryKeys(disk[last.historyPath]) # {}

\* C9: after a trackChanges call made while tracking is disabled, getFileState
\* returns status "untracked" for every input path.
C9_DisabledUpdatesRuntimeState ==
    DisabledRun =>
        \A p \in Keys(last.files) : getFileState(p).status = "untracked"

\* C10: the enabled trackChanges call that follows a clearHistory that
\* returned reports "new" with no previousFingerprint for every input path.
C10_NewAfterClear ==
    [][\A files \in FileDataCollection :
          (/\ last.op = "clearHistory" /\ last.outcome = "ok"
           /\ TrackStep(files) /\ config.enabled /\ last'.outcome = "ok")
          => \A p \in Keys(files) :
                last'.value[p] = [status |-> "new", previousFingerprint |-> Undefined]
      ]_vars

\* C11: with a history path configured and a file system that does not refuse
\* the removal, clearHistory returns whether or not the history file exists;
\* afterwards there is no history file (it is removed, not emptied) and
\* getFileState returns undefined for every path; called when the file is
\* already absent and the runtime state already empty, it leaves the state
\* as it is.
C11_ClearRemovesFileAndState ==
    [][(clearHistory(TRUE) /\ config.historyPath # "")
          => /\ last'.outcome = "ok"
             /\ disk'[config.historyPath] = Absent
             /\ fileStates' = EmptyMap
             /\ \A p \in Paths : getFileState(p)' = UndefinedState
             /\ (disk[config.historyPath] = Absent /\ fileStates = EmptyMap)
                   => UNCHANGED <<config, fileStates, disk>>
      ]_vars

\* C11 witness: clearHistory returned after removing states from the runtime
\* state, and there is no history file.
C11_Witness ==
    /\ last.op = "clearHistory" /\ last.outcome = "ok"
    /\ last.removed # {}
    /\ last.historyPath \in HistoryFiles
    /\ disk[last.historyPath] = Absent
    /\ fileStates = EmptyMap

\* C12: while the history path is empty, an enabled trackChanges (whatever its
\* input) and clearHistory throw HISTORY_PATH_NOT_SET without calling the
\* file system, and leave the runtime state and the history file as they were.
C12_PathNotSetFailsFirst ==
    [][(/\ config.historyPath = ""
        /\ \/ last'.op = "clearHistory"
           \/ last'.op = "trackChanges" /\ config.enabled)
          => /\ last'.outcome = "HISTORY_PATH_NOT_SET"
             /\ last'.fsCalls = <<>>
             /\ fileStates' = fileStates
             /\ disk' = disk
      ]_vars

\* C12 witness: a call threw HISTORY_PATH_NOT_SET while the runtime state held
\* states of an earlier run.
C12_Witness ==
    /\ last.op \in {"trackChanges", "clearHistory"}
    /\ last.outcome = "HISTORY_PATH_NOT_SET"
    /\ last.historyPath = ""
    /\ fileStates # EmptyMap

\* C13: an enabled trackChanges that returned has saved its fingerprints to the
\* history file, and one that reached saveHistory without returning threw
\* HISTORY_WRITE_ERROR.
C13_ReturnsOnlyWhenSaved ==
    /\ EnabledRun
          => /\ last.fsCalls = <<"readFile", "mkdir", "writeFile">>
             /\ disk[last.historyPath] = JSONstringify(NewFingerprints(last.files))
    /\ (/\ last.op = "trackChanges" /\ last.outcome # "ok"
        /\ \E i \in DOMAIN last.fsCalls : last.fsCalls[i] = "mkdir")
          => last.outcome = "HISTORY_WRITE_ERROR"

\* C13 witness: writeFile failed in saveHistory and trackChanges threw
\* HISTORY_WRITE_ERROR.
C13_Witness ==
    /\ last.op = "trackChanges"
    /\ last.outcome = "HISTORY_WRITE_ERROR"
    /\ last.fsCalls = <<"readFile", "mkdir", "writeFile">>

\* Inputs of which every file has contents that can be fingerprinted
WellFormedFiles ==
    { files \in FileDataCollection :
        \A p \in Keys(files) : ~FingerprintThrows(files[p]) }

\* Inputs of which some file has contents that cannot be fingerprinted
IllFormedFiles == FileDataCollection \ WellFormedFiles

\* C14: with a history path configured, an enabled trackChanges whose history
\* file is missing, is not valid JSON, or holds JSON that is not an object
\* (null, a number) does not fail because of the load: when nothing else fails
\* it returns, and reports every input path "new" as with an empty history.
C14_LoadNeverFailsTheCall ==
    [][\A files \in WellFormedFiles :
          (/\ trackChanges(files, "saved")
           /\ config.enabled
           /\ config.historyPath # ""
           /\ disk[config.historyPath].kind # "object")
          => /\ last'.outcome = "ok"
             /\ \A p \in Keys(files) : last'.value[p].status = "new"
      ]_vars

\* C15: an enabled trackChanges, with a history path configured, whose input
\* has a file that cannot be fingerprinted throws the TypeError of
\* createFingerprint and leaves the history file and the runtime state as they
\* were: nothing is pruned and no state is set, for any path of the input.
C15_InvalidInputChangesNothing ==
    [][(/\ last'.op = "trackChanges"
        /\ last'.files \in IllFormedFiles
        /\ config.enabled
        /\ config.historyPath # "")
          => /\ last'.outcome = "TypeError"
             /\ disk' = disk
             /\ fileStates' = fileStates
      ]_vars

\* C15 witness: trackChanges threw a TypeError after reading a history file
\* that holds no null, while the runtime state has states of an earlier run.
C15_Witness ==
    /\ last.op = "trackChanges" /\ last.outcome = "TypeError"
    /\ last.files \in IllFormedFiles
    /\ last.historyPath \in HistoryFiles
    /\ disk[last.historyPath].kind # "null"
    /\ fileStates # EmptyMap

\* C16: a write by the caller to a Map that trackChanges returned does not
\* change what getFileState returns, and the entries of a Map that
\* trackChanges returned are not changed by a later trackChanges or
\* clearHistory.
C16_ReturnedMapIsolated ==
    [][/\ last'.op \in {"Map.set", "Map.delete"}
             => \A p \in Paths : getFileState(p)' = getFileState(p)
       /\ (held.ref # "none" /\ last'.op \in {"trackChanges", "clearHistory"})
             => HeldEntries =
                   IF held.ref = "fileStates" THEN fileStates' ELSE held.entries
      ]_vars

\* C17: the trackChanges call that follows enable, when tracking is then
\* disabled, returns "untracked" for every input path whatever the contents;
\* when tracking is then enabled and the call returns, it reconciles against
\* the history file: every input path that the file has no entry for is "new".
C17_EnableTakesEffectOnNextCall ==
    [][\A files \in FileDataCollection :
          (last.op = "enable" /\ TrackStep(files))
          => IF ~config.enabled
             THEN /\ last'.outcome = "ok"
                  /\ last'.value =
                        [p \in Keys(files) |->
                           [status |-> "untracked", previousFingerprint |-> Undefined]]
             ELSE last'.outcome = "ok"
                  => \A p \in Keys(files) \ HistoryKeys(disk[config.historyPath]) :
                        last'.value[p].status = "new"
      ]_vars

\* C18: enable changes the configuration fields it names and nothing else:
\* with a boolean it sets enabled and keeps historyPath; with a configuration
\* object it sets the fields the object has and keeps the others (enabled is
\* kept when the object has none); the runtime state and the history file are
\* as they were.
C18_EnableChangesNamedFieldsOnly ==
    [][last'.op = "enable"
          => /\ fileStates' = fileStates
             /\ disk' = disk
             /\ \A options \in BOOLEAN :
                   enableBoolean(options)
                   => config' = [historyPath |-> config.historyPath,
                                 enabled |-> options]
             /\ \A options \in ConfigObjects :
                   enableConfig(options)
                   => /\ DOMAIN config' = {"historyPath", "enabled"}
                      /\ \A k \in DOMAIN config' :
                            config'[k] = IF k \in DOMAIN options
                                         THEN options[k] ELSE config[k]
      ]_vars

\* C18 witness: enable has switched tracking off on a tracker that has runtime
\* state and a history file with entries, and the history path is the one the
\* tracker had.
C18_Witness ==
    /\ last.op = "enable"
    /\ last.enabled /\ ~config.enabled
    /\ config.historyPath = last.historyPath
    /\ config.historyPath \in HistoryFiles
    /\ fileStates # EmptyMap
    /\ HistoryKeys(disk[config.historyPath]) # {}

\* C19: with a history path configured, a clearHistory whose removal of the
\* file is refused throws HISTORY_WRITE_ERROR and leaves the runtime state,
\* the history file and the configuration as they were.
C19_FailedClearChangesNothing ==
    [][(clearHistory(FALSE) /\ config.historyPath # "")
          => /\ last'.outcome = "HISTORY_WRITE_ERROR"
             /\ last'.fsCalls = <<"rm">>
             /\ fileStates' = fileStates
             /\ disk' = disk
             /\ config' = config
      ]_vars

\* C19 witness: clearHistory threw HISTORY_WRITE_ERROR on a tracker that has
\* runtime state and a history file.
C19_Witness ==
    /\ last.op = "clearHistory" /\ last.outcome = "HISTORY_WRITE_ERROR"
    /\ fileStates # EmptyMap
    /\ disk[last.historyPath] # Absent

C21_StateUpdatedBeforeFailedSave ==
    [][(last'.op = "trackChanges" /\ last'.outcome = "HISTORY_WRITE_ERROR")
          => /\ \A p \in Paths :
                   getFileState(p)' = IF p \in DOMAIN last'.value
                                      THEN last'.value[p] ELSE UndefinedState
             /\ \/ disk' = disk
                \/ disk'[config.historyPath].kind = "invalid"
      ]_vars

\* C21 witness: a save failed after the run had computed states for its
\* input, the runtime state holds them and the history file has no entries.
C21_Witness ==
    /\ last.op = "trackChanges" /\ last.outcome = "HISTORY_WRITE_ERROR"
    /\ last.value # EmptyMap
    /\ fileStates = last.value
    /\ HistoryKeys(disk[last.historyPath]) = {}

\* The state the reconciliation rules give for a history entry and the
\* fingerprint of the input: the entry is an own member of the loaded history
\* object, or there is none.
Reconciled(history, p, currentFingerprint) ==
    IF p \notin HistoryKeys(history)
    THEN [status |-> "new", previousFingerprint |-> Undefined]
    ELSE IF history.own[p] # currentFingerprint
    THEN [status |-> "modified", previousFingerprint |-> history.own[p]]
    ELSE [status |-> "unchanged", previousFingerprint |-> history.own[p]]

\* C22: an enabled trackChanges that returns gives every input path the state
\* of the reconciliation rules: "new" without previousFingerprint when the
\* history has no entry for the path, "modified" when it has a different
\* entry, "unchanged" when it has an equal one, both with the entry as
\* previousFingerprint; an entry that is the empty string or some other
\* manually written value is an entry like any other.
C22_ReconciliationFunction ==
    [][\A files \in WellFormedFiles :
          (/\ trackChanges(files, "saved")
           /\ config.enabled
           /\ config.historyPath # ""
           /\ last'.outcome = "ok")
          => \A p \in Keys(files) :
                last'.value[p] =
                    Reconciled(disk[config.historyPath], p,
                               createFingerprint(files[p]))
      ]_vars

\* C23: when an enabled trackChanges returned and pruned a path (the path was
\* in the input of the run before and not in its own), and the next call is
\* an enabled trackChanges that has the path in its input again and returns,
\* the path is "new" with no previousFingerprint, whatever its contents.
C23_NeverMergedForward ==
    [][\A files \in WellFormedFiles :
          (/\ EnabledRun
           /\ trackChanges(files, "saved")
           /\ config.enabled
           /\ last'.outcome = "ok")
          => \A p \in Keys(files) \cap last.removed :
                last'.value[p] =
                    [status |-> "new", previousFingerprint |-> Undefined]
      ]_vars

\* C24: what an enabled trackChanges returns and what it leaves in the
\* history file are determined by the history file, the configuration and the
\* input: they are what a tracker with an empty runtime state gives for the
\* same file, configuration and input, whatever the runtime state was.
C24_ResultIndependentOfRuntimeState ==
    [][(last'.op = "trackChanges" /\ config.enabled /\ last'.outcome = "ok")
          => /\ last'.value =
                   Updated(EmptyMap, last'.files, loadHistory,
                           NewFingerprints(last'.files))
             /\ disk' = [disk EXCEPT ![config.historyPath] =
                            JSONstringify(NewFingerprints(last'.files))]
      ]_vars

\* C24 witness: an enabled run returned states found in the history for its
\* input on a tracker whose runtime state had states of other paths.
C24_Witness ==
    /\ EnabledRun
    /\ last.removed # {}
    /\ \E p \in DOMAIN last.value :
          last.value[p].status \in {"modified", "unchanged"}

\* C25: when two enabled trackChanges calls of which one started while the
\* other was awaiting have both returned, the history file and the runtime
\* state describe the same call: they have the same keys, and the file holds
\* the fingerprints of the input whose paths are in the runtime state.
C25_OverlappingRunsAgree ==
    (/\ last.op = "trackChanges"
     /\ \A c \in CallNames :
           /\ calls[c].pc = "settled" /\ calls[c].outcome = "ok"
           /\ calls[c].savePath \in HistoryFiles
     /\ \E c \in CallNames : calls[c].overlaps)
    => \E c \in CallNames :
          /\ DOMAIN fileStates = Keys(calls[c].files)
          /\ HistoryKeys(disk[calls[c].savePath]) = DOMAIN fileStates
          /\ disk[calls[c].savePath] =
                JSONstringify(NewFingerprints(calls[c].files))

\* C26: the first trackChanges to start after clearHistory returned, when it
\* returns, reports every input path "new", also when the other call had
\* loaded the history and not yet saved while clearHistory ran; and when that
\* other call has returned, the runtime state has no entries unless there is
\* a history file.
C26_NewAfterClearDespiteInFlight ==
    [][\A c \in CallNames :
          /\ (/\ saveHistoryAfterWrite(c)
              /\ calls'[c].outcome = "ok"
              /\ calls[c].cleared = "before"
              /\ \A d \in CallNames \ {c} : calls[d].cleared = "saving")
                => \A p \in Keys(calls[c].files) :
                      /\ p \in DOMAIN last'.value
                      /\ last'.value[p].status = "new"
          /\ (/\ saveHistoryAfterWrite(c)
              /\ calls'[c].outcome = "ok"
              /\ calls[c].cleared = "saving")
                => (fileStates' # EmptyMap
                      => disk'[calls[c].savePath] # Absent)
      ]_vars

\* C27: a trackChanges call that has passed the test of the history path in
\* loadHistory does not throw HISTORY_PATH_NOT_SET, and passes to writeFile
\* the path it passed to readFile, whatever enable does while it is awaiting.
C27_OneConfigurationPerCall ==
    \A c \in CallNames :
        calls[c].loadPath # ""
        => /\ calls[c].outcome # "HISTORY_PATH_NOT_SET"
           /\ (calls[c].pc = "writeFile" \/ calls[c].outcome \in {"ok", "HISTORY_WRITE_ERROR"})
                 => calls[c].savePath = calls[c].loadPath

\* C28: the trackers are independent in memory.  With a second tracker
\* constructed (from the configuration object of the first), a call on the
\* first tracker (enable, trackChanges, clearHistory) leaves the
\* configuration of the second as it was, and a call of enable on the second
\* leaves the configuration and the runtime state of the first as they were.
C28_InstancesIndependent ==
    [][other.ref # "none" =>
         /\ last'.op \in {"enable", "trackChanges", "clearHistory"}
               => OtherConfig' = OtherConfig
         /\ last'.op = "other.enable"
               => config' = config /\ fileStates' = fileStates]_vars

====
